---- MODULE Spec2Model ----
(***************************************************************************)
(* Model of src/dialogue_generator.py: the generate / validate / retry     *)
(* loop of DialogueGenerator.create_dialogue_dataset, the validator        *)
(* check_dialogue_sintax and the checkpoint store                          *)
(* (dialogue_exists_in_dataset, save_dialogue_to_file).                    *)
(*                                                                         *)
(* Python strings are sequences of chunks (TLA+ strings), so that          *)
(* concatenation, prefix and substring are computed, not assumed.          *)
(***************************************************************************)
EXTENDS Integers, Sequences, FiniteSets, TLC

(* ------------------------------ bounds --------------------------------- *)
\* number of entries of self.join_combination_data
NumCombinations == 2
\* largest number of interactions in an Experiment the model returns
MaxInteractions == 2
\* largest dataset length of the checkpoint document found on disk at start
MaxInitLen == 1

(* ------------------------- program constants --------------------------- *)
\* `retries < 3` in the while condition
MaxRetries == 3

(* ------------------------------ strings -------------------------------- *)
Digit(d) ==
    CASE d = 0 -> "0" [] d = 1 -> "1" [] d = 2 -> "2" [] d = 3 -> "3"
      [] d = 4 -> "4" [] d = 5 -> "5" [] d = 6 -> "6" [] d = 7 -> "7"
      [] d = 8 -> "8" [] OTHER -> "9"

RECURSIVE Str(_)
\* str(n) for a non-negative int: decimal digits, no leading zero
Str(n) == IF n < 10 THEN <<Digit(n)>> ELSE Str(n \div 10) \o <<Digit(n % 10)>>

IsPrefix(p, s) == Len(p) <= Len(s) /\ SubSeq(s, 1, Len(p)) = p

\* Python `sub in s`
Contains(s, sub) ==
    \E k \in 0..(Len(s) - Len(sub)) : SubSeq(s, k + 1, k + Len(sub)) = sub

RECURSIVE LStrip(_)
LStrip(s) == IF s # <<>> /\ Head(s) = " " THEN LStrip(Tail(s)) ELSE s

RECURSIVE RStripChunk(_, _)
\* str.rstrip(c): every trailing c is removed
RStripChunk(s, c) ==
    IF s # <<>> /\ s[Len(s)] = c THEN RStripChunk(SubSeq(s, 1, Len(s) - 1), c) ELSE s

\* str.strip()
Strip(s) == RStripChunk(LStrip(s), " ")

RECURSIVE JoinStr(_, _)
\* sep.join(strs)
JoinStr(strs, sep) ==
    IF strs = <<>> THEN <<>>
    ELSE IF Len(strs) = 1 THEN strs[1]
    ELSE strs[1] \o sep \o JoinStr(Tail(strs), sep)

SeqRange(s) == { s[k] : k \in 1..Len(s) }

(* ----------------------------- data model ------------------------------ *)
\* golden_sql of the k-th interaction as the model writes it
GoldenSql(k) == <<" ", "SELECT ", Digit(k), ";">>

Interaction(k) == [interaction_id |-> Str(k), golden_sql |-> GoldenSql(k)]

Experiment(id, n) ==
    [experiment_id |-> id,
     total_expected_interactions |-> n,
     interactions |-> [k \in 1..n |-> Interaction(k)]]

\* value of `dialogue` before the first assignment
NoDialogue == [experiment_id |-> <<>>, total_expected_interactions |-> 0,
               interactions |-> <<>>]

\* self.join_combination_data[i] (0-based i)
JoinCombinationData(i) ==
    [combination_str |-> <<"join ">> \o Str(i + 1), tables |-> <<"country", "city">>]

\* the experiment ids the external model answers with for combination i: the
\* id the prompt asks for, or another one (the model is not bound by the prompt)
ModelIds(i) == { Str(i + 1), Str(((i + 1) % NumCombinations) + 1) }

ModelOutputs(i) ==
    { Experiment(id, n) : id \in ModelIds(i), n \in 1..MaxInteractions }

(* --------------------------- prompt builder ---------------------------- *)
RECURSIVE TablesContext(_)
TablesContext(tables) ==
    IF tables = <<>> THEN <<>>
    ELSE <<"Table: ", Head(tables), "\nDDL:\n", "ddl", "\nColumn values examples:\n",
           "examples", "\n">> \o TablesContext(Tail(tables))

create_prompt_from_join_combination_data(i, data) ==
    LET experiment_id == Str(i + 1)
        join_str == data.combination_str
        joins_len == Cardinality(SeqRange(data.tables))
    IN  <<"template experiment_id=">> \o experiment_id
        \o <<" join_str=">> \o join_str
        \o <<" joins_len=">> \o Str(joins_len)
        \o <<" tables_context=">> \o TablesContext(data.tables)
        \o <<" tables_involved=">> \o JoinStr([k \in 1..Len(data.tables) |-> <<data.tables[k]>>], <<", ">>)

(* ------------------------------ validator ------------------------------ *)
\* What the database and the configuration file do during one validation:
\*   config_ok   the connection settings file opens, parses and has its keys
\*   connect_ok  oracledb.connect and connection.cursor succeed
\*   failing     positions of the interactions whose execute/fetchall raises
\*   close_ok    cursor.close and connection.close succeed
CheckEnv(config_ok, connect_ok, failing, close_ok) ==
    [config_ok |-> config_ok, connect_ok |-> connect_ok, failing |-> failing,
     close_ok |-> close_ok]

\* one environment per distinguishable course of a validation
CheckEnvs(dialogue) ==
    {CheckEnv(FALSE, FALSE, {}, FALSE), CheckEnv(TRUE, FALSE, {}, FALSE)}
    \cup { CheckEnv(TRUE, TRUE, failing, close_ok) :
             failing \in SUBSET (1..Len(dialogue.interactions)),
             close_ok \in BOOLEAN }

\* sql = sql.strip().rstrip(';')
CleanSql(sql) == RStripChunk(Strip(sql), ";")

ErrorMsg(interaction) ==
    <<"Interaction ">> \o interaction.interaction_id \o <<", SQL: '">>
    \o CleanSql(interaction.golden_sql) \o <<"' - Error: ", "sql error">>

RECURSIVE SqlErrors_StopAtFirst(_, _, _)
\* the for loop left at the first statement that fails
SqlErrors_StopAtFirst(interactions, failing, k) ==
    IF k > Len(interactions) THEN <<>>
    ELSE IF k \in failing THEN <<ErrorMsg(interactions[k])>>
    ELSE SqlErrors_StopAtFirst(interactions, failing, k + 1)

RECURSIVE SqlErrors(_, _, _)
\* the for loop: sql_errors after the interactions from position k on
SqlErrors(interactions, failing, k) ==
    IF k > Len(interactions) THEN <<>>
    ELSE (IF k \in failing THEN <<ErrorMsg(interactions[k])>> ELSE <<>>)
         \o SqlErrors(interactions, failing, k + 1)

RECURSIVE Executed(_, _)
\* the for loop: the positions handed to cursor.execute from position k on; an
\* exception of one statement is caught inside the loop body
Executed(interactions, k) ==
    IF k > Len(interactions) THEN <<>>
    ELSE <<k>> \o Executed(interactions, k + 1)

FeedbackPreamble ==
    <<"\n\n# Feedback: \nThe groundtruths SQLs that you generated gave me the following errors, try again but attention to the errors:\n">>

FeedbackTrailer ==
    <<"\nDo it again fixing it please and you can maintain the same structure of everything except wrong SQLs.">>

ConnectionErrorMsg(cause) == <<"Error connecting to the database: ", cause>>

\* the connection opened outside the try block: a failure to connect leaves
\* the method as an exception
check_dialogue_sintax_ConnectOutsideTry(dialogue, env) ==
    LET sql_errors == SqlErrors(dialogue.interactions, env.failing, 1)
    IN  IF ~env.config_ok \/ ~env.connect_ok
        THEN [raised |-> TRUE, is_valid |-> FALSE, feedback |-> <<>>,
              executed |-> <<>>, sql_errors |-> <<>>]
        ELSE IF ~env.close_ok
        THEN [raised |-> FALSE, is_valid |-> FALSE,
              feedback |-> ConnectionErrorMsg("close error"),
              executed |-> Executed(dialogue.interactions, 1),
              sql_errors |-> sql_errors]
        ELSE IF sql_errors = <<>>
        THEN [raised |-> FALSE, is_valid |-> TRUE, feedback |-> <<>>,
              executed |-> Executed(dialogue.interactions, 1),
              sql_errors |-> sql_errors]
        ELSE [raised |-> FALSE, is_valid |-> FALSE,
              feedback |-> FeedbackPreamble \o JoinStr(sql_errors, <<"\n">>)
                           \o FeedbackTrailer,
              executed |-> Executed(dialogue.interactions, 1),
              sql_errors |-> sql_errors]

\* check_dialogue_sintax under env: raised is an exception leaving the method;
\* executed lists the positions handed to cursor.execute, in order
check_dialogue_sintax(dialogue, env) ==
    LET sql_errors == SqlErrors(dialogue.interactions, env.failing, 1)
    IN  IF ~env.config_ok
        THEN [raised |-> TRUE, is_valid |-> FALSE, feedback |-> <<>>,
              executed |-> <<>>, sql_errors |-> <<>>]
        ELSE IF ~env.connect_ok
        THEN [raised |-> FALSE, is_valid |-> FALSE,
              feedback |-> ConnectionErrorMsg("connect error"),
              executed |-> <<>>, sql_errors |-> <<>>]
        ELSE IF ~env.close_ok
        THEN [raised |-> FALSE, is_valid |-> FALSE,
              feedback |-> ConnectionErrorMsg("close error"),
              executed |-> Executed(dialogue.interactions, 1), sql_errors |-> sql_errors]
        ELSE IF sql_errors = <<>>
        THEN [raised |-> FALSE, is_valid |-> TRUE, feedback |-> <<>>,
              executed |-> Executed(dialogue.interactions, 1), sql_errors |-> sql_errors]
        ELSE [raised |-> FALSE, is_valid |-> FALSE,
              feedback |-> FeedbackPreamble \o JoinStr(sql_errors, <<"\n">>)
                           \o FeedbackTrailer,
              executed |-> Executed(dialogue.interactions, 1), sql_errors |-> sql_errors]

(* --------------------------- checkpoint store -------------------------- *)
\* Content of the output file, by what json.load and the code make of it:
\*   missing  os.path.exists is false
\*   invalid  json.load raises JSONDecodeError
\*   scalar   a JSON number, true, false or null: `"dataset" in x` raises TypeError
\*   nokey    a JSON object without the key "dataset"
\*   nolist   {"dataset": {}}: nothing to iterate, and no append method
\*   doc      {"dataset": [...]}
\* An element of the dataset is an object with an experiment_id (kind obj), an
\* object without that key (kind noid) or not an object (kind junk).
File(kind, dataset) == [kind |-> kind, dataset |-> dataset]

MissingFile == File("missing", <<>>)
InvalidFile == File("invalid", <<>>)

\* dialogue.model_dump()
model_dump(dialogue) ==
    [kind |-> "obj",
     experiment_id |-> dialogue.experiment_id,
     total_expected_interactions |-> dialogue.total_expected_interactions,
     interactions |-> dialogue.interactions]

Element(kind, id) ==
    [kind |-> kind, experiment_id |-> id, total_expected_interactions |-> 0,
     interactions |-> <<>>]

RECURSIVE ScanDataset(_, _, _)
\* the for loop of dialogue_exists_in_dataset from position k on
ScanDataset(dataset, experiment_id, k) ==
    IF k > Len(dataset) THEN "false"
    ELSE IF dataset[k].kind = "junk" THEN "raise"
    ELSE IF dataset[k].kind = "obj" /\ dataset[k].experiment_id = experiment_id
    THEN "true"
    ELSE ScanDataset(dataset, experiment_id, k + 1)

\* "true", "false", or "raise" when an exception leaves the method
dialogue_exists_in_dataset(experiment_id, f) ==
    CASE f.kind = "missing" -> "false"
      [] f.kind = "invalid" -> "false"
      [] f.kind = "scalar" -> "raise"
      [] f.kind = "nokey" -> "false"
      [] f.kind = "nolist" -> "false"
      [] OTHER -> ScanDataset(f.dataset, experiment_id, 1)

\* How the rewrite of the file goes: ok, open_fails (open(..., 'w') raises, the
\* file is untouched) or dump_fails (json.dump raises after the truncation)
WriteOutcomes == {"ok", "open_fails", "dump_fails"}

\* the new experiment put in front of the dataset instead of at its end
save_dialogue_to_file_Prepend(dialogue, f, outcome) ==
    LET existing == IF f.kind = "doc" THEN f.dataset ELSE <<>>
    IN  IF f.kind \in {"scalar", "nolist"} THEN f
        ELSE IF outcome = "ok" THEN File("doc", <<model_dump(dialogue)>> \o existing)
        ELSE IF outcome = "open_fails" THEN f
        ELSE InvalidFile

\* file content after save_dialogue_to_file(dialogue, f); the method returns
\* normally in every case (except Exception)
save_dialogue_to_file(dialogue, f, outcome) ==
    LET dialogue_dict == model_dump(dialogue)
        existing == IF f.kind = "doc" THEN f.dataset ELSE <<>>
    IN  IF f.kind \in {"scalar", "nolist"} THEN f
        ELSE IF outcome = "ok" THEN File("doc", Append(existing, dialogue_dict))
        ELSE IF outcome = "open_fails" THEN f
        ELSE InvalidFile

\* whether save_dialogue_to_file reached its last print ("added successfully")
SaveSucceeds(f, outcome) == f.kind \notin {"scalar", "nolist"} /\ outcome = "ok"

(* ------------------------------- state --------------------------------- *)
VARIABLES
    output_file,   \* content of self.output_file on disk
    pc,            \* position in create_dialogue_dataset
    i,             \* loop index (0-based)
    prompt,        \* local `prompt`
    dialogue,      \* local `dialogue`
    retries,       \* local `retries`
    is_valid,      \* local `is_valid`
    feedback,      \* local `feedback`
    dialogues,     \* local `dialogues`, the list returned
    sent,          \* argument of the model invocation whose result awaits validation
    calls,         \* model invocations for combination i so far
    checks,        \* validations for combination i so far
    saved,         \* save_dialogue_to_file for combination i: "no", "ok" or "error"
    skipped,       \* combinations skipped so far
    present,       \* combinations whose id was in the checkpoint when they were reached
    reachedFile,   \* content of the output file when combination i passed line 106
    touched,       \* combinations with a model invocation, validation or save so far
    lastCheck,     \* environment and result of the validation of the current candidate
    storeLog,      \* latest direct call of a checkpoint store method
    lastModel,     \* what the latest model invocation for combination i returned
    order,         \* indexes of the combinations appended to `dialogues`, in order
    finals         \* lastModel of each combination when it was appended to `dialogues`

vars == <<output_file, pc, i, prompt, dialogue, retries, is_valid, feedback,
          dialogues, sent, calls, checks, saved, skipped, present,
          reachedFile, touched, lastCheck, storeLog, lastModel, order, finals>>

locals == <<prompt, dialogue, retries, is_valid, feedback>>

NoCheck == [env |-> CheckEnv(FALSE, FALSE, {}, FALSE), raised |-> FALSE,
            is_valid |-> FALSE, feedback |-> <<>>, executed |-> <<>>,
            sql_errors |-> <<>>, done |-> FALSE, candidate |-> NoDialogue]

NoStoreLog == [op |-> "none", experiment_id |-> <<>>, before |-> MissingFile,
               outcome |-> "none", result |-> "none", dialogue |-> NoDialogue]

Running == {"loop", "generate", "validate", "while", "revalidate", "append"}

\* the process has returned, was killed, or was left by an exception
Ended == {"done", "stopped", "exists_raised", "model_raised", "check_raised"}

(* --------------------- files found on disk at start -------------------- *)
\* experiment ids of earlier runs
FileIds == { Str(k) : k \in 1..NumCombinations }

RECURSIVE SeqsUpTo(_, _)
\* the sequences over S of length at most n
SeqsUpTo(S, n) ==
    IF n = 0 THEN {<<>>}
    ELSE LET shorter == SeqsUpTo(S, n - 1)
         IN  shorter \cup { Append(q, x) : q \in shorter, x \in S }

UniqueIds(dataset) ==
    \A a, b \in 1..Len(dataset) :
        (a # b /\ dataset[a].kind = "obj" /\ dataset[b].kind = "obj")
            => dataset[a].experiment_id # dataset[b].experiment_id

Elements ==
    { Element("obj", id) : id \in FileIds } \cup {Element("noid", <<>>), Element("junk", <<>>)}

\* every content the output file can have when a method of the store is called
AnyFiles ==
    { File(kind, <<>>) : kind \in {"missing", "invalid", "scalar", "nokey", "nolist"} }
    \cup { File("doc", dataset) : dataset \in SeqsUpTo(Elements, MaxInitLen + 1) }

\* contents at the start of a run, as earlier complete or interrupted runs of
\* the script or an editor left them: the experiment ids are unique
InitFiles ==
    { File(kind, <<>>) : kind \in {"missing", "invalid", "scalar", "nokey", "nolist"} }
    \cup { File("doc", dataset) :
             dataset \in { q \in SeqsUpTo(Elements, MaxInitLen) : UniqueIds(q) } }

(* ------------------------------- actions ------------------------------- *)
\* the memory of a process that has not entered the loop, or has ended early
\* (killed, or left by an exception): nothing of the loop's state survives
FreshMemory ==
    /\ i' = 0
    /\ prompt' = <<>>
    /\ dialogue' = NoDialogue
    /\ retries' = 0
    /\ is_valid' = FALSE
    /\ feedback' = <<>>
    /\ dialogues' = <<>>
    /\ sent' = <<>>
    /\ calls' = 0
    /\ checks' = 0
    /\ saved' = "no"
    /\ skipped' = {}
    /\ present' = {}
    /\ reachedFile' = MissingFile
    /\ touched' = {}
    /\ lastCheck' = NoCheck
    /\ lastModel' = NoDialogue
    /\ order' = <<>>
    /\ finals' = <<>>

\* an uncaught exception ends the run
Crash(status) ==
    /\ pc' = status
    /\ FreshMemory
    /\ UNCHANGED <<output_file, storeLog>>

Init ==
    /\ output_file \in InitFiles
    /\ pc = "loop"
    /\ i = 0
    /\ prompt = <<>>
    /\ dialogue = NoDialogue
    /\ retries = 0
    /\ is_valid = FALSE
    /\ feedback = <<>>
    /\ dialogues = <<>>
    /\ sent = <<>>
    /\ calls = 0
    /\ checks = 0
    /\ saved = "no"
    /\ skipped = {}
    /\ present = {}
    /\ reachedFile = MissingFile
    /\ touched = {}
    /\ lastCheck = NoCheck
    /\ storeLog = NoStoreLog
    /\ lastModel = NoDialogue
    /\ order = <<>>
    /\ finals = <<>>

\* the check made with the 0-based index instead of the 1-based id
AlreadyGenerated_OffByOne(idx, f) == dialogue_exists_in_dataset(Str(idx), f)

\* line 106: self.dialogue_exists_in_dataset(str(i + 1), self.output_file)
AlreadyGenerated(idx, f) == dialogue_exists_in_dataset(Str(idx + 1), f)

\* some experiment of the checkpoint document has this experiment_id
FileContains(experiment_id, f) ==
    /\ f.kind = "doc"
    /\ \E k \in 1..Len(f.dataset) :
         f.dataset[k].kind = "obj" /\ f.dataset[k].experiment_id = experiment_id

\* combination idx is reached: was its id in the checkpoint?
Reached(idx) ==
    present' = IF FileContains(Str(idx + 1), output_file)
               THEN present \cup {idx} ELSE present

\* lines 106-108: the combination is in the checkpoint: continue
Skip ==
    /\ pc = "loop" /\ i < NumCombinations
    /\ AlreadyGenerated(i, output_file) = "true"
    /\ Reached(i)
    /\ skipped' = skipped \cup {i}
    /\ i' = i + 1
    /\ UNCHANGED <<output_file, pc, locals, dialogues, sent, calls, checks,
                   saved, reachedFile, touched, lastCheck, storeLog,
                   lastModel, order, finals>>

\* line 106: an exception other than JSONDecodeError / FileNotFoundError leaves
\* dialogue_exists_in_dataset and ends the run
ExistsRaises ==
    /\ pc = "loop" /\ i < NumCombinations
    /\ AlreadyGenerated(i, output_file) = "raise"
    /\ Crash("exists_raised")

\* line 110
BuildPrompt ==
    /\ pc = "loop" /\ i < NumCombinations
    /\ AlreadyGenerated(i, output_file) = "false"
    /\ Reached(i)
    /\ prompt' = create_prompt_from_join_combination_data(i, JoinCombinationData(i))
    /\ reachedFile' = output_file
    /\ pc' = "generate"
    /\ UNCHANGED <<output_file, i, dialogue, retries, is_valid, feedback,
                   dialogues, sent, calls, checks, saved, skipped, touched,
                   lastCheck, storeLog,
                   lastModel, order, finals>>

\* lines 112, 116: the first model invocation returns an Experiment
Generate ==
    /\ pc = "generate"
    /\ \E d \in ModelOutputs(i) : dialogue' = d /\ lastModel' = d
    /\ sent' = prompt
    /\ calls' = calls + 1
    /\ touched' = touched \cup {i}
    /\ retries' = 0
    /\ pc' = "validate"
    /\ UNCHANGED <<output_file, i, prompt, is_valid, feedback, dialogues,
                   checks, saved, skipped, present, reachedFile, lastCheck,
                   storeLog, order, finals>>

\* line 112: the invocation raises (the output does not fit the schema)
GenerateRaises ==
    /\ pc = "generate"
    /\ Crash("model_raised")

\* the validation of `dialogue` under env, and where the loop goes next
Checked(env, next_retries) ==
    LET r == check_dialogue_sintax(dialogue, env)
    IN  IF r.raised
        THEN Crash("check_raised")
        ELSE /\ checks' = checks + 1
             /\ touched' = touched \cup {i}
             /\ sent' = <<>>
             /\ lastCheck' = [env |-> env, raised |-> r.raised, is_valid |-> r.is_valid,
                              feedback |-> r.feedback, executed |-> r.executed,
                              sql_errors |-> r.sql_errors, done |-> TRUE,
                              candidate |-> dialogue]
             /\ pc' = "while"
             /\ is_valid' = r.is_valid
             /\ feedback' = r.feedback
             /\ retries' = next_retries
             /\ UNCHANGED <<output_file, i, prompt, dialogue, dialogues, calls,
                            saved, skipped, present, reachedFile, storeLog,
                            lastModel, order, finals>>

\* line 117
Validate ==
    /\ pc = "validate"
    /\ \E env \in CheckEnvs(dialogue) : Checked(env, retries)

\* lines 122-123
Revalidate ==
    /\ pc = "revalidate"
    /\ \E env \in CheckEnvs(dialogue) : Checked(env, retries + 1)

\* one retry too few: retries < 2
WhileCondition_TwoRetries(valid, n) == ~valid /\ n < 2

\* the loop bound off by one: retries <= 3
WhileCondition_Inclusive(valid, n) == ~valid /\ n <= MaxRetries

\* line 118: while not is_valid and retries < 3
WhileCondition(valid, n) == ~valid /\ n < MaxRetries

\* the feedback replaces the prompt instead of being appended to it
RetryPrompt_FeedbackOnly(p, fb) == fb

\* line 120: prompt + feedback
RetryPrompt(p, fb) == p \o fb

\* the retry result is not validated again: the loop tests the old is_valid
Retry_NotRevalidated ==
    /\ pc = "while"
    /\ WhileCondition(is_valid, retries)
    /\ \E d \in ModelOutputs(i) : dialogue' = d /\ lastModel' = d
    /\ sent' = RetryPrompt(prompt, feedback)
    /\ calls' = calls + 1
    /\ retries' = retries + 1
    /\ UNCHANGED <<output_file, pc, i, prompt, is_valid, feedback, dialogues,
                   checks, saved, skipped, present, reachedFile, touched,
                   lastCheck, storeLog, order, finals>>

\* the retry result is dropped: `dialogue` keeps the first candidate
Retry_KeepsFirst ==
    /\ pc = "while"
    /\ WhileCondition(is_valid, retries)
    /\ \E d \in ModelOutputs(i) : lastModel' = d
    /\ sent' = RetryPrompt(prompt, feedback)
    /\ calls' = calls + 1
    /\ lastCheck' = NoCheck
    /\ pc' = "revalidate"
    /\ UNCHANGED <<output_file, i, prompt, dialogue, retries, is_valid, feedback,
                   dialogues, checks, saved, skipped, present, reachedFile,
                   touched, storeLog, order, finals>>

\* line 120: a retry invocation returns an Experiment
Retry ==
    /\ pc = "while"
    /\ WhileCondition(is_valid, retries)
    /\ \E d \in ModelOutputs(i) : dialogue' = d /\ lastModel' = d
    /\ sent' = RetryPrompt(prompt, feedback)
    /\ calls' = calls + 1
    /\ lastCheck' = NoCheck
    /\ pc' = "revalidate"
    /\ UNCHANGED <<output_file, i, prompt, retries, is_valid, feedback,
                   dialogues, checks, saved, skipped, present, reachedFile,
                   touched, storeLog, order, finals>>

\* the exception of a retry invocation caught and counted as a failed retry
RetryRaises_Caught ==
    /\ pc = "while"
    /\ WhileCondition(is_valid, retries)
    /\ retries' = retries + 1
    /\ UNCHANGED <<output_file, pc, i, prompt, dialogue, is_valid, feedback,
                   dialogues, sent, calls, checks, saved, skipped, present,
                   reachedFile, touched, lastCheck, storeLog, lastModel, order,
                   finals>>

\* line 120: the retry invocation raises
RetryRaises ==
    /\ pc = "while"
    /\ WhileCondition(is_valid, retries)
    /\ Crash("model_raised")

\* the candidate is saved whatever the validation said
SaveCondition_Always(valid) == TRUE

\* line 125: if is_valid
SaveCondition(valid) == valid

\* save_dialogue_to_file without its try/except: a failed write leaves the
\* method as an exception and ends the run
Save_NoCatch ==
    /\ pc = "while"
    /\ ~WhileCondition(is_valid, retries)
    /\ SaveCondition(is_valid)
    /\ \E outcome \in WriteOutcomes :
         IF SaveSucceeds(output_file, outcome)
         THEN /\ output_file' = save_dialogue_to_file(dialogue, output_file, outcome)
              /\ saved' = "ok"
              /\ touched' = touched \cup {i}
              /\ pc' = "append"
              /\ UNCHANGED <<i, locals, dialogues, sent, calls, checks, skipped,
                             present, reachedFile, lastCheck, storeLog,
                             lastModel, order, finals>>
         ELSE /\ output_file' = save_dialogue_to_file(dialogue, output_file, outcome)
              /\ pc' = "save_raised"
              /\ FreshMemory
              /\ UNCHANGED storeLog

\* lines 125-126
Save ==
    /\ pc = "while"
    /\ ~WhileCondition(is_valid, retries)
    /\ SaveCondition(is_valid)
    /\ \E outcome \in WriteOutcomes :
         /\ output_file' = save_dialogue_to_file(dialogue, output_file, outcome)
         /\ saved' = IF SaveSucceeds(output_file, outcome) THEN "ok" ELSE "error"
    /\ touched' = touched \cup {i}
    /\ pc' = "append"
    /\ UNCHANGED <<i, locals, dialogues, sent, calls, checks, skipped, present, reachedFile,
                   lastCheck, storeLog,
                   lastModel, order, finals>>

\* line 125: the condition is false, nothing is saved
NoSave ==
    /\ pc = "while"
    /\ ~WhileCondition(is_valid, retries)
    /\ ~SaveCondition(is_valid)
    /\ pc' = "append"
    /\ UNCHANGED <<output_file, i, locals, dialogues, sent, calls, checks,
                   saved, skipped, present, reachedFile, touched, lastCheck, storeLog,
                   lastModel, order, finals>>

\* only a valid candidate is added to the returned list
AppendDialogue_OnlyValid ==
    /\ pc = "append"
    /\ dialogues' = IF is_valid THEN Append(dialogues, dialogue) ELSE dialogues
    /\ i' = i + 1
    /\ pc' = "loop"
    /\ prompt' = <<>>
    /\ dialogue' = NoDialogue
    /\ retries' = 0
    /\ is_valid' = FALSE
    /\ feedback' = <<>>
    /\ calls' = 0
    /\ checks' = 0
    /\ saved' = "no"
    /\ lastCheck' = NoCheck
    /\ reachedFile' = MissingFile
    /\ lastModel' = NoDialogue
    /\ order' = Append(order, i)
    /\ finals' = Append(finals, lastModel)
    /\ UNCHANGED <<output_file, sent, skipped, present, touched, storeLog>>

\* line 128, and the next iteration; the locals are dead until reassigned
AppendDialogue ==
    /\ pc = "append"
    /\ dialogues' = Append(dialogues, dialogue)
    /\ i' = i + 1
    /\ pc' = "loop"
    /\ prompt' = <<>>
    /\ dialogue' = NoDialogue
    /\ retries' = 0
    /\ is_valid' = FALSE
    /\ feedback' = <<>>
    /\ calls' = 0
    /\ checks' = 0
    /\ saved' = "no"
    /\ lastCheck' = NoCheck
    /\ reachedFile' = MissingFile
    /\ lastModel' = NoDialogue
    /\ order' = Append(order, i)
    /\ finals' = Append(finals, lastModel)
    /\ UNCHANGED <<output_file, sent, skipped, present, touched, storeLog>>

\* line 129
Return ==
    /\ pc = "loop" /\ i = NumCombinations
    /\ pc' = "done"
    /\ UNCHANGED <<output_file, i, locals, dialogues, sent, calls, checks,
                   saved, skipped, present, reachedFile, touched, lastCheck, storeLog,
                   lastModel, order, finals>>

\* the process is killed between two steps
Interrupt ==
    /\ pc \in Running
    /\ Crash("stopped")

\* the process is killed inside json.dump, after open(..., 'w') truncated the file
InterruptDuringWrite ==
    /\ pc = "while"
    /\ ~WhileCondition(is_valid, retries)
    /\ SaveCondition(is_valid)
    /\ output_file.kind \notin {"scalar", "nolist"}
    /\ output_file' = InvalidFile
    /\ pc' = "stopped"
    /\ FreshMemory
    /\ UNCHANGED storeLog

Next ==
    \/ Skip
    \/ ExistsRaises
    \/ BuildPrompt
    \/ Generate
    \/ GenerateRaises
    \/ Validate
    \/ Revalidate
    \/ Retry
    \/ RetryRaises
    \/ Save
    \/ NoSave
    \/ AppendDialogue
    \/ Return
    \/ Interrupt
    \/ InterruptDuringWrite

Spec == Init /\ [][Next]_vars

(* ------------- the loop when every call it makes returns -------------- *)
\* line 117, the validation returning a result
ValidateReturns ==
    /\ pc = "validate"
    /\ \E env \in CheckEnvs(dialogue) : env.config_ok /\ Checked(env, retries)

\* lines 122-123, the validation returning a result
RevalidateReturns ==
    /\ pc = "revalidate"
    /\ \E env \in CheckEnvs(dialogue) : env.config_ok /\ Checked(env, retries + 1)

\* the steps of a run that is not killed and in which neither a model
\* invocation nor a validation raises or hangs
NextLive ==
    \/ Skip
    \/ ExistsRaises
    \/ BuildPrompt
    \/ Generate
    \/ ValidateReturns
    \/ RevalidateReturns
    \/ Retry
    \/ Save
    \/ NoSave
    \/ AppendDialogue
    \/ Return

\* the interpreter keeps executing the sequential loop
SpecLive == Init /\ [][NextLive]_vars /\ WF_vars(NextLive)

(* ------------------- the checkpoint store on its own ------------------- *)
\* experiments handed to save_dialogue_to_file by a direct caller
StoreExperiments == { Experiment(id, 1) : id \in FileIds }

\* no direct call lets the document grow beyond this length
StoreCap == MaxInitLen + 2

\* dialogue_exists_in_dataset(experiment_id, output_file) called directly
StoreExists ==
    /\ \E id \in FileIds :
         storeLog' = [op |-> "exists", experiment_id |-> id, before |-> output_file,
                      outcome |-> "none", dialogue |-> NoDialogue,
                      result |-> dialogue_exists_in_dataset(id, output_file)]
    /\ UNCHANGED <<output_file, pc, i, locals, dialogues, sent, calls, checks, saved,
                   skipped, present, reachedFile, touched, lastCheck, lastModel, order,
                   finals>>

\* save_dialogue_to_file(d, output_file) called directly; it always returns
StoreAppend ==
    /\ Len(output_file.dataset) < StoreCap
    /\ \E d \in StoreExperiments, outcome \in WriteOutcomes :
         /\ output_file' = save_dialogue_to_file(d, output_file, outcome)
         /\ storeLog' = [op |-> "append", experiment_id |-> d.experiment_id,
                         before |-> output_file, outcome |-> outcome,
                         dialogue |-> d,
                         result |-> IF SaveSucceeds(output_file, outcome)
                                    THEN "ok" ELSE "error"]
    /\ UNCHANGED <<pc, i, locals, dialogues, sent, calls, checks, saved, skipped,
                   present, reachedFile, touched, lastCheck, lastModel, order, finals>>

InitStore ==
    /\ output_file \in AnyFiles
    /\ pc = "loop"
    /\ i = 0
    /\ prompt = <<>>
    /\ dialogue = NoDialogue
    /\ retries = 0
    /\ is_valid = FALSE
    /\ feedback = <<>>
    /\ dialogues = <<>>
    /\ sent = <<>>
    /\ calls = 0
    /\ checks = 0
    /\ saved = "no"
    /\ skipped = {}
    /\ present = {}
    /\ reachedFile = MissingFile
    /\ touched = {}
    /\ lastCheck = NoCheck
    /\ storeLog = NoStoreLog
    /\ lastModel = NoDialogue
    /\ order = <<>>
    /\ finals = <<>>

NextStore ==
    \/ StoreExists
    \/ StoreAppend

SpecStore == InitStore /\ [][NextStore]_vars

(* ------------------------------- claims -------------------------------- *)
OriginalPrompt == create_prompt_from_join_combination_data(i, JoinCombinationData(i))

LastOf(q) == q[Len(q)]

\* C1: a combination whose experiment_id str(i+1) was in the checkpoint when the
\* loop reached it gets no model invocation, no validation and no checkpoint
\* write in that run.
C1_SkippedUntouched == \A k \in present : k \notin touched /\ k \in skipped

\* a run that skipped one combination and generated another has returned
C1_Witness == pc = "done" /\ present # {} /\ touched # {}

\* C2: the experiment the loop writes for the combination at index i has
\* experiment_id str(i+1), whatever the model returned.
C2_WrittenIdIsIndex ==
    (pc = "append" /\ saved = "ok")
        => LastOf(output_file.dataset).experiment_id = Str(i + 1)

\* C3: starting from unique experiment ids, no experiment_id ever occurs twice
\* in the checkpoint document.
C3_UniqueIds == output_file.kind = "doc" => UniqueIds(output_file.dataset)

\* C4 as stated: at the end of a non-skipped combination the experiment has been
\* persisted to the checkpoint file if and only if the last validation was valid.
C4_PersistedIffValid == pc = "append" => ((saved = "ok") <=> is_valid)

\* C4 amended: append is called if and only if the last validation was valid,
\* the experiment is the last element of the checkpoint document when the call
\* wrote the file, and an exhausted combination leaves the file as it was.
C4_SaveCalledIffValid ==
    pc = "append" =>
        /\ (saved # "no") <=> is_valid
        /\ saved = "ok" =>
             /\ output_file.kind = "doc"
             /\ LastOf(output_file.dataset) = model_dump(dialogue)
        /\ ~is_valid => (retries = 3 /\ output_file = reachedFile)

\* three retries are used up, the candidate is still invalid, nothing is written
C4_Witness ==
    pc = "append" /\ ~is_valid /\ retries = 3 /\ saved = "no" /\ calls = 4

\* C5: at most 4 model invocations per combination (3 after the first), and a
\* retry invocation only follows a validation that returned invalid.
C5_RetryBound ==
    /\ calls <= 4
    /\ retries <= 3
    /\ pc = "revalidate" => (~is_valid /\ calls = retries + 2 /\ checks = calls - 1)

\* the fourth invocation has been validated and is invalid too
C5_Witness == pc = "while" /\ calls = 4 /\ retries = 3 /\ ~is_valid

\* C7: check returns (true, "") exactly when the connection opened and no SQL
\* raised; a failure while closing does not change the result.
C7_ValidIffNoSqlError ==
    lastCheck.done =>
        ((lastCheck.is_valid /\ lastCheck.feedback = <<>>)
            <=> (lastCheck.env.connect_ok /\ lastCheck.env.failing = {}))

\* C8: an invalid result carries a non-empty feedback that contains the
\* interaction_id of every interaction whose SQL failed.
C8_FeedbackNamesFailures ==
    (lastCheck.done /\ ~lastCheck.is_valid) =>
        /\ lastCheck.feedback # <<>>
        /\ \A k \in lastCheck.env.failing :
             Contains(lastCheck.feedback, dialogue.interactions[k].interaction_id)

\* C9: a retry invocation receives the original prompt of the combination
\* followed by the feedback of the validation just before it, and nothing else.
C9_RetryPromptIsOriginalPlusFeedback ==
    /\ pc = "revalidate" =>
         /\ sent = OriginalPrompt \o feedback
         /\ IsPrefix(OriginalPrompt, sent)
         /\ feedback # <<>>
    /\ pc = "while" => feedback = lastCheck.feedback

\* the third retry has been sent
C9_Witness == pc = "revalidate" /\ retries = 2 /\ Len(sent) > Len(OriginalPrompt)

\* C6: after append returns, exists for the appended experiment_id on the same
\* file is true, whatever the file held before. The claim is given its most
\* favourable reading: opening and writing the file do not fail.
C6_AppendThenExists ==
    (storeLog.op = "append" /\ storeLog.outcome = "ok")
        => dialogue_exists_in_dataset(storeLog.experiment_id, output_file) = "true"

\* C10: exists is true only when the document holds the id, is false for every
\* other content of the file, and never raises.
C10_ExistsTotal ==
    storeLog.op = "exists" =>
        /\ storeLog.result = "true"
             => FileContains(storeLog.experiment_id, storeLog.before)
        /\ ~FileContains(storeLog.experiment_id, storeLog.before)
             => storeLog.result = "false"
        /\ storeLog.result # "raise"

\* C11: a successful append to a document with a dataset list leaves the earlier
\* elements as they were, in the same order, with the new experiment after them;
\* on a missing file, invalid JSON or a document without the dataset key the
\* resulting dataset holds the new experiment alone.
C11_AppendAddsLast ==
    (storeLog.op = "append" /\ storeLog.result = "ok") =>
        LET old == storeLog.before
            new == model_dump(storeLog.dialogue)
            ds == output_file.dataset
        IN  /\ output_file.kind = "doc"
            /\ ds # <<>> /\ ds[Len(ds)] = new
            /\ old.kind = "doc" =>
                 /\ Len(ds) = Len(old.dataset) + 1
                 /\ \A k \in 1..Len(old.dataset) : ds[k] = old.dataset[k]
            /\ old.kind \in {"missing", "invalid", "nokey"} => ds = <<new>>

\* an experiment was appended to a document that already held two elements
C11_Witness ==
    /\ storeLog.op = "append" /\ storeLog.result = "ok"
    /\ storeLog.before.kind = "doc" /\ Len(storeLog.before.dataset) = 2
    /\ Len(output_file.dataset) = 3

\* the latest validation of the current candidate could not connect
ConnectionFailed ==
    lastCheck.done /\ lastCheck.env.config_ok /\ ~lastCheck.env.connect_ok

\* C12: a connection failure inside check does not raise; it comes back as
\* (false, "Error connecting to the database: <cause>") and the loop goes on as
\* for any invalid result: a retry while retries < 3, else the next combination.
C12_ConnectionFailureIsInvalid ==
    /\ [](pc \in {"validate", "revalidate"} =>
            \A env \in CheckEnvs(dialogue) :
                (env.config_ok /\ ~env.connect_ok) =>
                    LET r == check_dialogue_sintax(dialogue, env)
                    IN  /\ ~r.raised
                        /\ ~r.is_valid
                        /\ r.feedback = <<"Error connecting to the database: ",
                                           "connect error">>)
    /\ [](ConnectionFailed =>
            /\ pc \in {"while", "append"}
            /\ ~is_valid
            /\ feedback = <<"Error connecting to the database: ", "connect error">>)
    /\ [][(ConnectionFailed /\ pc = "while") =>
            IF retries < 3
            THEN pc' \in {"revalidate", "model_raised", "stopped"}
            ELSE pc' \in {"append", "stopped"} /\ output_file' = output_file]_vars
    /\ [][(ConnectionFailed /\ pc = "append") =>
            \/ pc' = "stopped"
            \/ pc' = "loop" /\ i' = i + 1]_vars

\* the validation after the third retry could not connect either, and the loop
\* is about to move to the next combination
C12_Witness == ConnectionFailed /\ pc = "append" /\ retries = 3

\* C13: combinations are handled in input order, one at a time: whatever was
\* invoked, validated or saved belongs to the current index or a lower one, the
\* index only moves on by one once the combination is skipped or appended, and
\* every model invocation is validated once before the next invocation or the
\* decision to persist.
C13_InOrderOneAtATime ==
    /\ [](/\ \A k \in touched : k <= i
          /\ \A k \in skipped : k < i
          /\ pc \in {"loop", "generate"} => (i \notin touched /\ calls = 0 /\ checks = 0)
          /\ pc \in {"validate", "revalidate"} => (i \in touched /\ calls = checks + 1)
          /\ pc \in {"while", "append"} => (i \in touched /\ calls = checks /\ calls >= 1))
    /\ [][i' # i => \/ i' = i + 1 /\ pc \in {"loop", "append"}
                    \/ pc' \in Ended]_vars
    /\ [][calls' > calls => (checks = calls /\ pc \in {"generate", "while"})]_vars
    /\ [][checks' > checks => (calls = checks + 1 /\ calls' = calls)]_vars
    /\ [][output_file' # output_file =>
            (pc = "while" /\ checks = calls /\ (i' = i \/ pc' = "stopped"))]_vars

\* the second combination is being retried after the first one was saved
C13_Witness ==
    /\ i = 1 /\ pc = "revalidate" /\ calls = 2 /\ 0 \in touched
    /\ output_file.kind = "doc" /\ Len(output_file.dataset) = 1
    /\ order = <<0>>

\* the terminal states of a combination (spec section 4.3)
VALID == pc \in {"while", "append"} /\ is_valid

EXHAUSTED == pc \in {"while", "append"} /\ ~is_valid /\ retries = 3

\* C14: when every model invocation and validation returns, a combination that
\* is not skipped ends VALID or EXHAUSTED, and EXHAUSTED means exactly 3 retries
\* (4 invocations, 4 validations) with every validation invalid.
C14_ReachesTerminalState ==
    /\ (pc = "generate") ~> (VALID \/ EXHAUSTED)
    /\ [](pc = "append" => (VALID \/ EXHAUSTED))
    /\ [](EXHAUSTED => (calls = 4 /\ checks = 4))
    /\ [](pc = "revalidate" => ~is_valid)
    /\ [][(pc = "while" /\ pc' = "revalidate") => (~is_valid /\ retries < 3)]_vars

\* a combination has used its 3 retries and is still invalid
C14_Witness == EXHAUSTED /\ pc = "while" /\ i = 1

\* C15: the returned list has one entry per non-skipped combination, in input
\* order, each the last candidate the model produced for it (valid or
\* exhausted); skipped combinations contribute none.
C15_ReturnedListIsLastCandidates ==
    /\ Len(dialogues) = Len(order)
    /\ dialogues = finals
    /\ \A k \in 1..Len(dialogues) : dialogues[k] # NoDialogue
    /\ \A a, b \in 1..Len(order) : a < b => order[a] < order[b]
    /\ pc \in Running \cup {"done"} =>
         \A k \in 0..(i - 1) : (k \in skipped) # (\E a \in 1..Len(order) : order[a] = k)
    /\ \A a \in 1..Len(order) : order[a] < i /\ order[a] \notin skipped
    /\ pc = "append" => (dialogue = lastModel /\ lastModel # NoDialogue)
    /\ pc = "done" => i = NumCombinations

\* the loop returned after skipping combination 0 and generating combination 1
C15_Witness ==
    /\ pc = "done" /\ skipped = {0} /\ order = <<1>> /\ Len(dialogues) = 1

\* C16: a failed checkpoint write raises nothing into the loop: the loop goes
\* on to line 128, appends the experiment to the returned list and moves to the
\* next combination, and the failed call added nothing to the checkpoint.
C16_WriteFailureSwallowed ==
    /\ []((pc = "append" /\ saved = "error") =>
            (is_valid /\ output_file \in {reachedFile, InvalidFile}))
    /\ [][(pc = "while" /\ ~WhileCondition(is_valid, retries) /\ SaveCondition(is_valid))
            => pc' \in {"append", "stopped"}]_vars
    /\ [][(pc = "append" /\ saved = "error") =>
            \/ pc' = "stopped"
            \/ /\ pc' = "loop" /\ i' = i + 1
               /\ dialogues' = Append(dialogues, dialogue)
               /\ output_file' = output_file]_vars

\* the write of a valid experiment into an existing document has failed
C16_Witness ==
    /\ pc = "append" /\ saved = "error" /\ i = 0
    /\ output_file.kind = "doc" /\ output_file = reachedFile

\* C17: a model invocation that raises (first attempt or retry) is not caught:
\* the run ends at that step, nothing is invoked, validated or written
\* afterwards, and the checkpoint keeps what the run had persisted.
C17_SchemaViolationEndsRun ==
    /\ [][(GenerateRaises \/ RetryRaises) =>
            (pc' = "model_raised" /\ output_file' = output_file)]_vars
    /\ [][pc' = "model_raised" =>
            (pc \in {"generate", "while", "model_raised"} /\ output_file' = output_file)]_vars
    /\ [][pc = "model_raised" => FALSE]_vars
    /\ [](pc = "model_raised" => (calls = 0 /\ checks = 0 /\ saved = "no"))

\* an invocation raised after an experiment of this run was persisted
C17_Witness ==
    /\ pc = "model_raised"
    /\ output_file.kind = "doc"
    /\ \E k \in 1..Len(output_file.dataset) : output_file.dataset[k].interactions # <<>>

\* C18: in a check whose connection opened, every interaction's SQL is executed
\* exactly once in interaction order, whatever failed before it, and sql_errors
\* holds one entry per failing interaction, in that order.
C18_EveryStatementExecutedOnce ==
    (lastCheck.done /\ lastCheck.env.connect_ok) =>
        LET interactions == lastCheck.candidate.interactions
            failing == lastCheck.env.failing
            sql_errors == lastCheck.sql_errors
        IN  /\ lastCheck.executed = [k \in 1..Len(interactions) |-> k]
            /\ Len(sql_errors) = Cardinality(failing)
            /\ \A j \in 1..Len(sql_errors) :
                 \E k \in failing :
                    /\ Cardinality({m \in failing : m < k}) = j - 1
                    /\ IsPrefix(<<"Interaction ">> \o interactions[k].interaction_id
                                  \o <<", SQL: '">>, sql_errors[j])

\* a check of two interactions whose first statement failed
C18_Witness ==
    /\ lastCheck.done /\ lastCheck.env.connect_ok
    /\ Len(lastCheck.candidate.interactions) = 2
    /\ lastCheck.env.failing = {1}
    /\ lastCheck.executed = <<1, 2>>

\* the file after `candidate` was appended to the document found in f
WithCandidate(f, candidate) ==
    File("doc", Append(IF f.kind = "doc" THEN f.dataset ELSE <<>>, model_dump(candidate)))

\* C19: for a combination that is not skipped the validations number as many
\* as the model invocations, and what is written to the checkpoint is the
\* candidate of the latest invocation, accepted by the latest validation; a
\* candidate replaced by a retry is never written.
C19_WrittenIsLatestAccepted ==
    /\ [](pc \in {"while", "append"} =>
            (checks = calls /\ lastCheck.done /\ lastCheck.candidate = lastModel
             /\ dialogue = lastModel))
    /\ [](pc \in {"validate", "revalidate"} => (calls = checks + 1 /\ dialogue = lastModel))
    /\ []((pc = "append" /\ saved = "ok") =>
            (lastCheck.is_valid /\ output_file = WithCandidate(reachedFile, lastModel)))
    /\ [](pc \in {"generate", "validate", "while", "revalidate"} => output_file = reachedFile)
    /\ [][output_file' # output_file =>
            /\ pc = "while" /\ lastCheck.done /\ lastCheck.is_valid
            /\ lastCheck.candidate = lastModel
            /\ output_file' \in {WithCandidate(output_file, lastModel), InvalidFile}]_vars
    /\ [][calls' > calls =>
            (output_file' = output_file /\ (pc = "while" => ~lastCheck.is_valid))]_vars

\* an experiment is written after its first candidate was replaced by a retry
C19_Witness ==
    /\ pc = "append" /\ saved = "ok" /\ retries >= 1 /\ calls = 2 /\ checks = 2
    /\ output_file = WithCandidate(reachedFile, lastModel)

====
